---- MODULE Spec2Model ----
(***************************************************************************)
(* A model of asyncelgato (src/elgato.py): the ElgatoLight handle with its *)
(* two lazily populated caches, the coroutines that read and write the     *)
(* light through _elgato_rest, and the discover() coroutine.               *)
(*                                                                         *)
(* A coroutine runs without interruption between two awaits (asyncio is    *)
(* cooperative), so one action models the code from one suspension point   *)
(* to the next.  The light and the zeroconf library are the environment.   *)
(***************************************************************************)
EXTENDS Integers, Sequences, FiniteSets, TLC

VARIABLES
    handle,     \* ElgatoLight.address, .port, .name and .server
    dev,        \* the light's own state: on, brightness, temperature (device units)
    heap,       \* the dict objects of the client, by identity (1..Len(heap))
    _info,      \* ElgatoLight._info: 0 (None) or the identity of a dict
    _status,    \* ElgatoLight._status: 0 (None) or the identity of a dict
    calls,      \* the coroutines started on the handle, in start order
    dpc,        \* discover(): the coordinator's position
    now,        \* the clock, in poll intervals (0.1 s)
    start,      \* discover(): start = time()
    wake,       \* discover(): when the pending asyncio.sleep(0.1) returns
    light_count,    \* discover(): the argument, <<>> for None
    timeout,        \* discover(): the argument, in seconds
    future_services,    \* MyListener.future_services: the state of each future
    awaited,    \* MyListener.services(): how many futures the comprehension has awaited
    lights,     \* discover(): the list of handles built so far
    closed,     \* how many times zeroconf_loop.close() was called
    reached,    \* history: the clock when len(future_services) first reached light_count
    left,       \* history: the clock and len(future_services) when the listening loop was left
    kelvin,     \* conversion: a temperature in K, the argument of _temperature_to_value
    raw,        \* conversion: <<>> or the device value _temperature_to_value returned
    back        \* conversion: <<>> or the temperature _value_to_temperature returned

lvars == <<handle, dev, heap, _info, _status, calls>>
dvars == <<dpc, now, start, wake, light_count, timeout, future_services, awaited,
           lights, closed, reached, left>>
cvars == <<kelvin, raw, back>>
vars == <<handle, dev, heap, _info, _status, calls, dpc, now, start, wake, light_count,
          timeout, future_services, awaited, lights, closed, reached, left,
          kelvin, raw, back>>

----------------------------------------------------------------------------
(* Bounds of the model *)

\* calls made on the handle in one behaviour of Spec
MaxCalls == 2
\* calls made on the handle in one behaviour of SpecRepeat
MaxRepeatCalls == 3
\* calls made on the handle in one behaviour of SpecConc
MaxConcCalls == 2
\* service names the browser reports in one discovery
MaxServices == 3
\* the clock stops advancing this many poll intervals after the timeout
MaxExtraTime == 2

----------------------------------------------------------------------------
(* Unit conversion *)

\* 987007 * t ** -0.999 is strictly decreasing in t, so its rounding is a step
\* function of t.  TLA+ has no real exponent: KelvinSteps lists, for the device
\* values 343 down to 142, the last integer t of 2900..7000 that
\* int(round(987007 * t ** -0.999, 0)) maps to that value, computed with the
\* source expression.
KelvinSteps ==
    << 
      2904, 2913, 2921, 2930, 2939, 2947, 2956, 2965, 2974, 2983, 2992, 3001,
      3010, 3019, 3028, 3038, 3047, 3056, 3066, 3075, 3085, 3094, 3104, 3114,
      3123, 3133, 3143, 3153, 3163, 3173, 3184, 3194, 3204, 3214, 3225, 3235,
      3246, 3257, 3267, 3278, 3289, 3300, 3311, 3322, 3333, 3344, 3355, 3367,
      3378, 3390, 3401, 3413, 3425, 3437, 3449, 3461, 3473, 3485, 3497, 3510,
      3522, 3535, 3547, 3560, 3573, 3586, 3598, 3612, 3625, 3638, 3651, 3665,
      3678, 3692, 3706, 3720, 3734, 3748, 3762, 3776, 3791, 3805, 3820, 3835,
      3849, 3864, 3879, 3895, 3910, 3925, 3941, 3957, 3972, 3988, 4004, 4021,
      4037, 4053, 4070, 4087, 4104, 4121, 4138, 4155, 4173, 4190, 4208, 4226,
      4244, 4262, 4280, 4299, 4318, 4336, 4355, 4375, 4394, 4413, 4433, 4453,
      4473, 4493, 4514, 4534, 4555, 4576, 4597, 4618, 4640, 4662, 4684, 4706,
      4728, 4751, 4774, 4797, 4820, 4843, 4867, 4891, 4915, 4940, 4964, 4989,
      5014, 5040, 5065, 5091, 5118, 5144, 5171, 5198, 5225, 5253, 5281, 5309,
      5337, 5366, 5395, 5425, 5454, 5485, 5515, 5546, 5577, 5608, 5640, 5672,
      5705, 5738, 5771, 5805, 5839, 5873, 5908, 5944, 5979, 6015, 6052, 6089,
      6127, 6165, 6203, 6242, 6281, 6321, 6362, 6403, 6444, 6486, 6529, 6572,
      6616, 6660, 6705, 6750, 6796, 6843, 6891, 6939, 6987, 7000 >>

\* int(round(987007 * temperature ** -0.999, 0)), for 2900 <= temperature <= 7000
_temperature_to_value(temperature) ==
    343 - Cardinality({i \in 1..Len(KelvinSteps) : KelvinSteps[i] < temperature})

\* Python's round(): to the nearest integer, a tie to the even one
RoundHalfEven(num, den) ==
    LET q == num \div den
        r == num % den
    IN  IF 2 * r < den THEN q
        ELSE IF 2 * r > den THEN q + 1
        ELSE IF q % 2 = 0 THEN q ELSE q + 1

\* a variant of _value_to_temperature: the device value is returned as it is
_value_to_temperature_unconverted(value) == value

\* int(round(1000000 * value ** -1, 0)), for value >= 1 (value = 0 raises
\* ZeroDivisionError, see ConvertErr)
_value_to_temperature(value) == RoundHalfEven(1000000, value)

----------------------------------------------------------------------------
(* The handle: requests, calls, and the code between two awaits *)

Keys == {"on", "brightness", "temperature"}

\* what the light answers on accessory-info: a flat mapping, cached verbatim
DeviceInfo == [productName |-> "Elgato Key Light", serialNumber |-> "BW01"]

\* one call of _elgato_rest, lines 74 and 76: the address and port of the URL,
\* the endpoint, and data = <<>> for a GET (data is None), <<d>> for a PUT of d
Request(query, data) ==
    [address |-> handle.address, port |-> handle.port, query |-> query, data |-> data]

\* how many responses of the lights endpoint the handle has received
Landed ==
    LET S == {calls[c].landed : c \in 1..Len(calls)}
    IN  IF S = {} THEN 0 ELSE CHOOSE n \in S : \A m \in S : m <= n

\* a coroutine just called: its arguments (<<>> for an argument not given), where
\* it is suspended (pc), the response the light has given to its pending request
\* (rsp), the dict it returned by identity (ret, 0 for None) and by value at the
\* return (retVal), the exception it raised (err), and as history: the requests
\* it issued (sent), whether the caller has changed the returned dict (mutated),
\* what self._status was when it was called (had), the first light entry of
\* the last response of the lights endpoint it received (got) and the rank of
\* that response among those the handle received (landed, 0 for none), and
\* whether no other call was suspended when it was called (alone)
NewCall(op, on, brightness, temperature, increment) ==
    [op |-> op, on |-> on, brightness |-> brightness, temperature |-> temperature,
     increment |-> increment, pc |-> "called", rsp |-> <<>>, ret |-> 0,
     retVal |-> <<>>, err |-> "", sent |-> <<>>, mutated |-> FALSE,
     had |-> _status, got |-> <<>>, landed |-> 0,
     alone |-> \A c \in 1..Len(calls) : calls[c].pc \notin {"info", "status", "set_status"}]

\* _elgato_rest returns the response of the lights endpoint to the coroutine
Receive(call) ==
    [call EXCEPT !.got = <<call.rsp[1].lights[1]>>, !.landed = Landed + 1]

\* the coroutine suspends in _elgato_rest, called from method `at`
Suspend(call, at, request) ==
    [call EXCEPT !.pc = at, !.rsp = <<>>, !.sent = Append(@, request)]

Raise(call, err) == [call EXCEPT !.pc = "raised", !.rsp = <<>>, !.err = err]

Return(call, obj, val) ==
    [call EXCEPT !.pc = "done", !.rsp = <<>>, !.ret = obj, !.retVal = val]

Awaiting == {"info", "status", "set_status"}

InFlight == {c \in 1..Len(calls) : calls[c].pc \in Awaiting}

\* a new call may start: Limits bounds the calls of a behaviour and how many
\* of them may be suspended at once (1: the caller awaits each call)
CanStart(Limits) ==
    /\ Len(calls) < Limits.calls
    /\ Cardinality(InFlight) < Limits.overlap

\* a variant of new_status: a field out of range empties the whole update
new_status_all_or_nothing(on, brightness, temperature) ==
    LET valid == /\ on # <<>> => on[1] \in {0, 1}
                 /\ brightness # <<>> => 0 <= brightness[1] /\ brightness[1] <= 100
                 /\ temperature # <<>> => 2900 <= temperature[1] /\ temperature[1] <= 7000
        given == IF valid THEN {k \in Keys : <<on, brightness, temperature>>[
                                   IF k = "on" THEN 1 ELSE IF k = "brightness" THEN 2 ELSE 3] # <<>>}
                 ELSE {}
    IN  [k \in given |->
            IF k = "on" THEN on[1]
            ELSE IF k = "brightness" THEN brightness[1]
            ELSE _temperature_to_value(temperature[1])]

\* lines 119-136: the fields given and individually valid
new_status(on, brightness, temperature) ==
    LET given == (IF on # <<>> /\ on[1] \in {0, 1} THEN {"on"} ELSE {})
            \cup (IF brightness # <<>> /\ 0 <= brightness[1] /\ brightness[1] <= 100
                  THEN {"brightness"} ELSE {})
            \cup (IF temperature # <<>> /\ 2900 <= temperature[1] /\ temperature[1] <= 7000
                  THEN {"temperature"} ELSE {})
    IN  [k \in given |->
            IF k = "on" THEN on[1]
            ELSE IF k = "brightness" THEN brightness[1]
            ELSE _temperature_to_value(temperature[1])]

\* line 138
data_dict(on, brightness, temperature) ==
    [numberOfLights |-> 1, lights |-> <<new_status(on, brightness, temperature)>>]

\* lines 89: info() suspended in _elgato_rest('accessory-info')
info_sent(call) == Suspend(call, "info", Request("accessory-info", <<>>))

\* line 103: status() suspended in _elgato_rest('lights')
status_sent(call) == Suspend(call, "status", Request("lights", <<>>))

\* lines 119-141: set_status() suspended in _elgato_rest('lights', data); json.dumps
\* never gives an empty string, so `if data:` takes the PUT branch
set_status_sent(call, on, brightness, temperature) ==
    Suspend(call, "set_status",
            Request("lights", <<data_dict(on, brightness, temperature)>>))

\* line 168
set_brightness_sent(call, brightness) == set_status_sent(call, <<>>, <<brightness>>, <<>>)

\* line 192
set_temperature_sent(call, temperature) ==
    set_status_sent(call, <<>>, <<>>, <<temperature>>)

\* a variant of new_brightness without lines 180-181 (no floor)
new_brightness_no_floor(status, increment) ==
    LET b == status.brightness + increment
    IN  IF b > 100 THEN 100 ELSE b

\* lines 179-183
new_brightness(status, increment) ==
    LET b == status.brightness + increment
    IN  IF b < 0 THEN 0 ELSE IF b > 100 THEN 100 ELSE b

\* a variant of new_temperature without lines 207-208 (no ceiling)
new_temperature_no_ceiling(status, increment) ==
    LET t == status.temperature + increment
    IN  IF t < 2900 THEN 2900 ELSE t

\* lines 204-208
new_temperature(status, increment) ==
    LET t == status.temperature + increment
    IN  IF t < 2900 THEN 2900 ELSE IF t > 7000 THEN 7000 ELSE t

\* lines 179-184, with self._status = status
increment_brightness_set(call, status) ==
    set_brightness_sent(call, new_brightness(status, call.increment[1]))

\* lines 204-209, with self._status = status: a cached dict without the key
\* raises KeyError at line 204
increment_temperature_set(call, status) ==
    IF "temperature" \notin DOMAIN status THEN Raise(call, "KeyError")
    ELSE set_temperature_sent(call, new_temperature(status, call.increment[1]))

\* lines 105 and 144: what the conversion of the first light entry raises
ConvertErr(entry) ==
    IF "temperature" \notin DOMAIN entry THEN "KeyError"
    ELSE IF entry.temperature = 0 THEN "ZeroDivisionError"
    ELSE ""

\* a variant of stored_status without lines 105 and 144: the entry is cached as
\* the light sent it
stored_status_unconverted(entry) == entry

\* lines 104-105 and 143-144: the dict self._status names after these lines.  It
\* is assigned before the conversion, so it stays as received when that raises.
stored_status(entry) ==
    IF ConvertErr(entry) = "" THEN
        [entry EXCEPT !.temperature = _value_to_temperature(@)]
    ELSE entry

\* a variant of info_copy: `return self._info`, the cached dict itself
info_copy_aliased(cached, fresh) == cached

\* line 90, self._info.copy(): the dict returned is the new one, not the cached one
info_copy(cached, fresh) == fresh

\* a variant of status_copy: `return self._status`, the cached dict itself
status_copy_aliased(cached, fresh) == cached

\* lines 107 and 145, self._status.copy()
status_copy(cached, fresh) == fresh

\* a variant of assigned_status: assigned only while unset, as under the test
\* of line 102
assigned_status_once(old, new) == IF old = 0 THEN new ELSE old

\* line 143: self._status is assigned whatever it was (old), to the dict of
\* the response (new)
assigned_status(old, new) == new

----------------------------------------------------------------------------
(* The calls of the handle, each up to its first await *)

Called(call) == calls' = Append(calls, call)

\* lines 83-90
info(Limits) ==
    /\ CanStart(Limits)
    /\ LET call == NewCall("info", <<>>, <<>>, <<>>, <<>>)
           fresh == Len(heap) + 1
       IN  IF _info = 0 THEN
               /\ Called(info_sent(call))
               /\ heap' = heap
           ELSE
               /\ heap' = Append(heap, heap[_info])
               /\ Called(Return(call, info_copy(_info, fresh), <<heap[_info]>>))
    /\ UNCHANGED <<dev, _info, _status>>
    /\ UNCHANGED handle
    /\ UNCHANGED dvars
    /\ UNCHANGED cvars

\* a variant of status without the test of line 102: every call asks the light
status_always_fetches(Limits) ==
    /\ CanStart(Limits)
    /\ Called(status_sent(NewCall("status", <<>>, <<>>, <<>>, <<>>)))
    /\ UNCHANGED <<dev, heap, _info, _status>>
    /\ UNCHANGED handle
    /\ UNCHANGED dvars
    /\ UNCHANGED cvars

\* lines 92-107
status(Limits) ==
    /\ CanStart(Limits)
    /\ LET call == NewCall("status", <<>>, <<>>, <<>>, <<>>)
           fresh == Len(heap) + 1
       IN  IF _status = 0 THEN
               /\ Called(status_sent(call))
               /\ heap' = heap
           ELSE
               /\ heap' = Append(heap, heap[_status])
               /\ Called(Return(call, status_copy(_status, fresh), <<heap[_status]>>))
    /\ UNCHANGED <<dev, _info, _status>>
    /\ UNCHANGED handle
    /\ UNCHANGED dvars
    /\ UNCHANGED cvars

\* lines 109-141
set_status(Limits, Args) ==
    \E on \in Args.on, brightness \in Args.brightness, temperature \in Args.temperature :
        /\ CanStart(Limits)
        /\ Called(set_status_sent(NewCall("set_status", on, brightness, temperature, <<>>),
                                  on, brightness, temperature))
        /\ UNCHANGED <<dev, heap, _info, _status>>
        /\ UNCHANGED handle
        /\ UNCHANGED dvars
        /\ UNCHANGED cvars

\* lines 147-152
power_on(Limits) ==
    /\ CanStart(Limits)
    /\ Called(set_status_sent(NewCall("power_on", <<>>, <<>>, <<>>, <<>>), <<1>>, <<>>, <<>>))
    /\ UNCHANGED <<dev, heap, _info, _status>>
    /\ UNCHANGED handle
    /\ UNCHANGED dvars
    /\ UNCHANGED cvars

\* lines 154-159
power_off(Limits) ==
    /\ CanStart(Limits)
    /\ Called(set_status_sent(NewCall("power_off", <<>>, <<>>, <<>>, <<>>), <<0>>, <<>>, <<>>))
    /\ UNCHANGED <<dev, heap, _info, _status>>
    /\ UNCHANGED handle
    /\ UNCHANGED dvars
    /\ UNCHANGED cvars

\* lines 161-168
set_brightness(Limits, Args) ==
    \E brightness \in Args.set_brightness :
        /\ CanStart(Limits)
        /\ Called(set_brightness_sent(
                      NewCall("set_brightness", <<>>, <<brightness>>, <<>>, <<>>), brightness))
        /\ UNCHANGED <<dev, heap, _info, _status>>
        /\ UNCHANGED handle
        /\ UNCHANGED dvars
        /\ UNCHANGED cvars

\* lines 186-192
set_temperature(Limits, Args) ==
    \E temperature \in Args.set_temperature :
        /\ CanStart(Limits)
        /\ Called(set_temperature_sent(
                      NewCall("set_temperature", <<>>, <<>>, <<temperature>>, <<>>), temperature))
        /\ UNCHANGED <<dev, heap, _info, _status>>
        /\ UNCHANGED handle
        /\ UNCHANGED dvars
        /\ UNCHANGED cvars

\* lines 170-184: with no cached status, status() is awaited first (103)
increment_brightness(Limits, Args) ==
    \E increment \in Args.increment_brightness :
        /\ CanStart(Limits)
        /\ LET call == NewCall("increment_brightness", <<>>, <<>>, <<>>, <<increment>>)
           IN  Called(IF _status = 0 THEN status_sent(call)
                      ELSE increment_brightness_set(call, heap[_status]))
        /\ UNCHANGED <<dev, heap, _info, _status>>
        /\ UNCHANGED handle
        /\ UNCHANGED dvars
        /\ UNCHANGED cvars

\* lines 194-209
increment_temperature(Limits, Args) ==
    \E increment \in Args.increment_temperature :
        /\ CanStart(Limits)
        /\ LET call == NewCall("increment_temperature", <<>>, <<>>, <<>>, <<increment>>)
           IN  Called(IF _status = 0 THEN status_sent(call)
                      ELSE increment_temperature_set(call, heap[_status]))
        /\ UNCHANGED <<dev, heap, _info, _status>>
        /\ UNCHANGED handle
        /\ UNCHANGED dvars
        /\ UNCHANGED cvars

----------------------------------------------------------------------------
(* The light and the transport, between a request and its response *)

\* the first light entry of a response: the light's state, or an entry the
\* conversion of lines 105 and 144 fails on
Entry(shape) ==
    IF shape = "no_temperature" THEN [k \in {"on", "brightness"} |-> dev[k]]
    ELSE IF shape = "zero_temperature" THEN [dev EXCEPT !.temperature = 0]
    ELSE dev

\* the light answers the GET of accessory-info (line 76)
light_info ==
    \E c \in 1..Len(calls) :
        /\ calls[c].pc = "info" /\ calls[c].rsp = <<>>
        /\ calls' = [calls EXCEPT ![c].rsp = <<DeviceInfo>>]
        /\ UNCHANGED <<dev, heap, _info, _status>>
        /\ UNCHANGED handle
        /\ UNCHANGED dvars
        /\ UNCHANGED cvars

\* the light answers the GET of lights (line 76)
light_get(Args) ==
    \E c \in 1..Len(calls) :
        /\ calls[c].pc = "status" /\ calls[c].rsp = <<>>
        /\ \E shape \in Args.shapes :
               calls' = [calls EXCEPT ![c].rsp =
                            <<[numberOfLights |-> 1, lights |-> <<Entry(shape)>>]>>]
        /\ UNCHANGED <<dev, heap, _info, _status>>
        /\ UNCHANGED handle
        /\ UNCHANGED dvars
        /\ UNCHANGED cvars

\* the light applies the PUT of lights (line 74) and answers with its new state
light_put(Args) ==
    \E c \in 1..Len(calls) :
        /\ calls[c].pc = "set_status" /\ calls[c].rsp = <<>>
        /\ LET update == calls[c].sent[Len(calls[c].sent)].data[1].lights[1]
           IN  dev' = [k \in Keys |-> IF k \in DOMAIN update THEN update[k] ELSE dev[k]]
        /\ \E shape \in Args.shapes :
               calls' = [calls EXCEPT ![c].rsp =
                            <<[numberOfLights |-> 1, lights |-> <<Entry(shape)'>>]>>]
        /\ UNCHANGED <<heap, _info, _status>>
        /\ UNCHANGED handle
        /\ UNCHANGED dvars
        /\ UNCHANGED cvars

\* a variant of _elgato_rest_raises: the failure also drops the cached status
_elgato_rest_raises_clears ==
    \E c \in 1..Len(calls) :
        /\ calls[c].pc \in Awaiting
        /\ calls' = [calls EXCEPT ![c] = Raise(@, "TransportError")]
        /\ _status' = 0
        /\ UNCHANGED <<dev, heap, _info>>
        /\ UNCHANGED handle
        /\ UNCHANGED dvars
        /\ UNCHANGED cvars

\* lines 72-79: the request or the parse of its response fails, before or after
\* the light has seen the request; the exception leaves _elgato_rest and every
\* caller above it (none catches it)
_elgato_rest_raises ==
    \E c \in 1..Len(calls) :
        /\ calls[c].pc \in Awaiting
        /\ calls' = [calls EXCEPT ![c] = Raise(@, "TransportError")]
        /\ UNCHANGED <<dev, heap, _info, _status>>
        /\ UNCHANGED handle
        /\ UNCHANGED dvars
        /\ UNCHANGED cvars

----------------------------------------------------------------------------
(* The calls of the handle, from the return of _elgato_rest on *)

\* lines 89-90
info_resumed ==
    \E c \in 1..Len(calls) :
        /\ calls[c].pc = "info" /\ calls[c].rsp # <<>>
        /\ LET response == calls[c].rsp[1]
               cached == Len(heap) + 1
               fresh == Len(heap) + 2
           IN  /\ heap' = heap \o <<response, response>>
               /\ _info' = cached
               /\ calls' = [calls EXCEPT ![c] =
                                Return(@, info_copy(cached, fresh), <<response>>)]
        /\ UNCHANGED <<dev, _status>>
        /\ UNCHANGED handle
        /\ UNCHANGED dvars
        /\ UNCHANGED cvars

\* lines 103-107, and for the increments lines 177-184 and 202-209
status_resumed ==
    \E c \in 1..Len(calls) :
        /\ calls[c].pc = "status" /\ calls[c].rsp # <<>>
        /\ LET entry == calls[c].rsp[1].lights[1]
               err == ConvertErr(entry)
               stored == stored_status(entry)
               cached == Len(heap) + 1
               fresh == Len(heap) + 2
           IN  /\ _status' = cached
               /\ IF err # "" THEN
                      /\ heap' = Append(heap, stored)
                      /\ calls' = [calls EXCEPT ![c] = Raise(Receive(@), err)]
                  ELSE IF calls[c].op = "status" THEN
                      /\ heap' = heap \o <<stored, stored>>
                      /\ calls' = [calls EXCEPT ![c] =
                                       Return(Receive(@), status_copy(cached, fresh), <<stored>>)]
                  ELSE IF calls[c].op = "increment_brightness" THEN
                      /\ heap' = Append(heap, stored)
                      /\ calls' = [calls EXCEPT ![c] = increment_brightness_set(Receive(@), stored)]
                  ELSE
                      /\ heap' = Append(heap, stored)
                      /\ calls' = [calls EXCEPT ![c] = increment_temperature_set(Receive(@), stored)]
        /\ UNCHANGED <<dev, _info>>
        /\ UNCHANGED handle
        /\ UNCHANGED dvars
        /\ UNCHANGED cvars

\* lines 141-145; power_on, power_off, set_brightness, set_temperature and the
\* increments drop the dict set_status returns and return None
set_status_resumed ==
    \E c \in 1..Len(calls) :
        /\ calls[c].pc = "set_status" /\ calls[c].rsp # <<>>
        /\ LET entry == calls[c].rsp[1].lights[1]
               err == ConvertErr(entry)
               stored == stored_status(entry)
               cached == Len(heap) + 1
               fresh == Len(heap) + 2
           IN  /\ _status' = assigned_status(_status, cached)
               /\ IF err # "" THEN
                      /\ heap' = Append(heap, stored)
                      /\ calls' = [calls EXCEPT ![c] = Raise(Receive(@), err)]
                  ELSE IF calls[c].op = "set_status" THEN
                      /\ heap' = heap \o <<stored, stored>>
                      /\ calls' = [calls EXCEPT ![c] =
                                       Return(Receive(@), status_copy(cached, fresh), <<stored>>)]
                  ELSE
                      /\ heap' = heap \o <<stored, stored>>
                      /\ calls' = [calls EXCEPT ![c] = Return(Receive(@), 0, <<>>)]
        /\ UNCHANGED <<dev, _info>>
        /\ UNCHANGED handle
        /\ UNCHANGED dvars
        /\ UNCHANGED cvars

\* the caller changes a dict a call returned to it
caller_mutates ==
    \E c \in 1..Len(calls) :
        /\ calls[c].pc = "done" /\ calls[c].ret # 0 /\ ~calls[c].mutated
        /\ heap' = [heap EXCEPT ![calls[c].ret] =
                        IF calls[c].op = "info" THEN [@ EXCEPT !.productName = "changed"]
                        ELSE [@ EXCEPT !.brightness = -1]]
        /\ calls' = [calls EXCEPT ![c].mutated = TRUE]
        /\ UNCHANGED <<dev, _info, _status>>
        /\ UNCHANGED handle
        /\ UNCHANGED dvars
        /\ UNCHANGED cvars

----------------------------------------------------------------------------
(* discover() *)

\* line 250: asyncio.sleep(0.1); the clock counts poll intervals
PollsPerSecond == 10

\* discover's arguments in the model: light_count (<<>> is None) and timeout (s)
LightCounts == {<<>>, <<-1>>, <<0>>, <<1>>, <<2>>}
Timeouts == {0, 1, 2}

\* the clock stops here (the behaviours of the model are finite)
MaxTime == timeout * PollsPerSecond + MaxExtraTime

\* lines 264-267: the handle built from the record of the i-th reported name
ElgatoLight(i) == [name |-> i, _info |-> 0, _status |-> 0]

\* a variant of Listening: the count is not looked at
Listening_timeout_only == (now - start) < timeout * PollsPerSecond

\* a variant of Listening: the elapsed time is not looked at
Listening_count_only ==
    light_count = <<>> \/ Len(future_services) < light_count[1]

\* a variant of Listening: a light_count of 0 or less is taken as None
Listening_count_positive ==
    /\ light_count = <<>> \/ light_count[1] <= 0
                          \/ Len(future_services) < light_count[1]
    /\ (now - start) < timeout * PollsPerSecond

\* a variant of Listening: the loop goes on when the elapsed time equals the
\* timeout (<= for <)
Listening_inclusive ==
    /\ light_count = <<>> \/ Len(future_services) < light_count[1]
    /\ (now - start) <= timeout * PollsPerSecond

\* line 249: the condition of the while loop
Listening ==
    /\ light_count = <<>> \/ Len(future_services) < light_count[1]
    /\ (now - start) < timeout * PollsPerSecond

\* a variant of Stop: the comprehension iterates over a copy of the list made
\* when the loop was left, so that a future appended later is not awaited
Stop_snapshot(from) ==
    LET last == IF left = <<>> THEN Len(future_services) ELSE left[2]
        S == {j \in (from + 1)..last : future_services[j] \in {"pending", "failed"}}
    IN  IF S = {} THEN 0 ELSE CHOOSE j \in S : \A k \in S : j <= k

\* line 239: the comprehension awaits the futures in list order; the iterator
\* of a list sees what is appended to the list while it iterates.  Awaiting a
\* future that is done does not suspend; `from` futures have been awaited.  The
\* first future that suspends the coroutine (pending) or raises in it (failed),
\* or 0 when every future of the list yields a value
Stop(from) ==
    LET S == {j \in (from + 1)..Len(future_services) :
                 future_services[j] \in {"pending", "failed"}}
    IN  IF S = {} THEN 0 ELSE CHOOSE j \in S : \A k \in S : j <= k

\* lines 252-268: the records the loop converts before one of them is None
\* (get_service_info found nothing: line 263 raises AttributeError)
Convertible ==
    LET N == {j \in 1..Len(future_services) : future_services[j] = "none"}
    IN  IF N = {} THEN Len(future_services)
        ELSE (CHOOSE j \in N : \A k \in N : j <= k) - 1

\* a variant of Finally: close() follows the loop without try/finally, so an
\* exception goes past it
Finally_on_success_only(e) ==
    IF e = "" THEN closed' = closed + 1 /\ dpc' = "closing"
    ELSE closed' = closed /\ dpc' = "raised"

\* lines 269-270: the finally clause calls zeroconf_loop.close() and awaits it,
\* with the exception `e` pending ("" for none)
Finally(e) ==
    /\ closed' = closed + 1
    /\ dpc' = IF e = "" THEN "closing" ELSE "closing_raising"

\* lines 252-270, from the comprehension's position on
services(from) ==
    LET j == Stop(from)
    IN  IF j = 0 THEN
            /\ awaited' = Len(future_services)
            /\ lights' = [i \in 1..Convertible |-> ElgatoLight(i)]
            /\ Finally(IF Convertible < Len(future_services) THEN "AttributeError" ELSE "")
        ELSE IF future_services[j] = "pending" THEN
            /\ awaited' = j - 1
            /\ dpc' = "services"
            /\ UNCHANGED <<lights, closed>>
        ELSE
            /\ awaited' = j - 1
            /\ Finally("ResolutionError")
            /\ UNCHANGED lights

\* lines 249-252: the loop condition, evaluated on entry and when the sleep is over
while_check ==
    /\ dpc = "entered" \/ (dpc = "sleeping" /\ now >= wake)
    /\ IF Listening THEN
           /\ dpc' = "sleeping"
           /\ wake' = now + 1
           /\ UNCHANGED <<awaited, lights, closed, left>>
       ELSE
           /\ left' = <<now, Len(future_services)>>
           /\ services(0)
           /\ UNCHANGED wake
    /\ UNCHANGED lvars
    /\ UNCHANGED cvars
    /\ UNCHANGED <<now, start, light_count, timeout, future_services, reached>>

\* line 239: the awaited future is done, the comprehension goes on
services_resumed ==
    /\ dpc = "services"
    /\ future_services[awaited + 1] # "pending"
    /\ services(awaited)
    /\ UNCHANGED lvars
    /\ UNCHANGED cvars
    /\ UNCHANGED <<now, start, wake, light_count, timeout, future_services, reached, left>>

\* line 270-272: close() is over; return lights, or the pending exception goes on
close_resumed ==
    /\ dpc \in {"closing", "closing_raising"}
    /\ dpc' = IF dpc = "closing" THEN "returned" ELSE "raised"
    /\ UNCHANGED lvars
    /\ UNCHANGED cvars
    /\ UNCHANGED <<now, start, wake, light_count, timeout, future_services, awaited,
                   lights, closed, reached, left>>

\* lines 231-236: the browser reports a name while discover is suspended and
\* zeroconf_loop is open; the resolution is started and its future appended
add_service ==
    /\ dpc \in {"sleeping", "services"}
    /\ Len(future_services) < MaxServices
    /\ future_services' = Append(future_services, "pending")
    /\ reached' = IF reached = <<>> /\ light_count # <<>>
                     /\ Len(future_services') >= light_count[1]
                  THEN <<now>> ELSE reached
    /\ UNCHANGED lvars
    /\ UNCHANGED cvars
    /\ UNCHANGED <<dpc, now, start, wake, light_count, timeout, awaited, lights,
                   closed, left>>

\* line 235: get_service_info is over: it returns a record, returns None (nothing
\* answered in its own time limit) or raises
get_service_info_done ==
    \E i \in 1..Len(future_services) :
        /\ dpc \notin {"idle", "returned", "raised"}
        /\ future_services[i] = "pending"
        /\ \E outcome \in {"resolved", "none", "failed"} :
               future_services' = [future_services EXCEPT ![i] = outcome]
        /\ UNCHANGED lvars
        /\ UNCHANGED cvars
        /\ UNCHANGED <<dpc, now, start, wake, light_count, timeout, awaited, lights,
                       closed, reached, left>>

\* time passes while discover is suspended: up to the end of the sleep, or while
\* it awaits a future or close()
tick ==
    /\ \/ dpc = "sleeping" /\ now < wake
       \/ dpc \in {"services", "closing", "closing_raising"} /\ now < MaxTime
    /\ now' = now + 1
    /\ UNCHANGED lvars
    /\ UNCHANGED cvars
    /\ UNCHANGED <<dpc, start, wake, light_count, timeout, future_services, awaited,
                   lights, closed, reached, left>>

----------------------------------------------------------------------------
(* Specifications *)

\* lines 28-31: what the handle was constructed with
InitHandle ==
    [address |-> "192.0.2.10", port |-> 9123, name |-> "Elgato Key Light",
     server |-> "elgato-key-light.local."]

\* the light when the handle is made: 142 is what the light stores for 7000 K,
\* and reads back as 7042 K
InitDev == [on |-> 0, brightness |-> 10, temperature |-> 142]

\* lines 17-37: a handle just constructed; discover is not running
HandleInit ==
    /\ handle = InitHandle
    /\ dev = InitDev
    /\ heap = <<>> /\ _info = 0 /\ _status = 0
    /\ calls = <<>>
    /\ dpc = "idle" /\ now = 0 /\ start = 0 /\ wake = 0
    /\ light_count = <<>> /\ timeout = 0
    /\ future_services = <<>> /\ awaited = 0 /\ lights = <<>>
    /\ closed = 0 /\ reached = <<>> /\ left = <<>>
    /\ kelvin = 2900 /\ raw = <<>> /\ back = <<>>

HandleNext(Limits, Args) ==
    \/ info(Limits)
    \/ status(Limits)
    \/ set_status(Limits, Args)
    \/ power_on(Limits)
    \/ power_off(Limits)
    \/ set_brightness(Limits, Args)
    \/ set_temperature(Limits, Args)
    \/ increment_brightness(Limits, Args)
    \/ increment_temperature(Limits, Args)
    \/ light_info
    \/ light_get(Args)
    \/ light_put(Args)
    \/ _elgato_rest_raises
    \/ info_resumed
    \/ status_resumed
    \/ set_status_resumed
    \/ caller_mutates

\* the arguments of the calls: every combination of an argument of set_status
\* absent, in range and out of range, the ends of the ranges, and increments
\* that reach both ends
WideArgs ==
    [on |-> {<<>>, <<1>>, <<2>>},
     brightness |-> {<<>>, <<100>>, <<150>>},
     temperature |-> {<<>>, <<4000>>, <<7001>>},
     set_brightness |-> {0, 101, -1},
     set_temperature |-> {2900, 2899, 7000},
     increment_brightness |-> {-1000, 5, 1000},
     increment_temperature |-> {-10000, 100, 10000},
     shapes |-> {"ok"}]

\* few arguments, and responses the conversion fails on
FewArgs ==
    [on |-> {<<>>, <<1>>},
     brightness |-> {<<>>, <<50>>},
     temperature |-> {<<>>},
     set_brightness |-> {70},
     set_temperature |-> {4000},
     increment_brightness |-> {5},
     increment_temperature |-> {100},
     shapes |-> {"ok", "no_temperature", "zero_temperature"}]

\* one handle, each call awaited before the next is made, many arguments
Spec == HandleInit /\ [][HandleNext([calls |-> MaxCalls, overlap |-> 1], WideArgs)]_vars

\* one handle, each call awaited before the next is made, more calls
SpecRepeat ==
    HandleInit /\ [][HandleNext([calls |-> MaxRepeatCalls, overlap |-> 1], FewArgs)]_vars

\* one handle, calls made while earlier ones are suspended
SpecConc ==
    HandleInit
    /\ [][HandleNext([calls |-> MaxConcCalls, overlap |-> MaxConcCalls], FewArgs)]_vars

\* lines 241-247: discover has started the browser and read the clock; no
\* handle exists yet
DiscoverInit ==
    /\ dpc = "entered" /\ now = 0 /\ start = 0 /\ wake = 0
    /\ light_count \in LightCounts /\ timeout \in Timeouts
    /\ future_services = <<>> /\ awaited = 0 /\ lights = <<>>
    /\ closed = 0 /\ reached = <<>> /\ left = <<>>
    /\ handle = InitHandle
    /\ dev = InitDev
    /\ heap = <<>> /\ _info = 0 /\ _status = 0
    /\ calls = <<>>
    /\ kelvin = 2900 /\ raw = <<>> /\ back = <<>>

DiscoverNext ==
    \/ while_check
    \/ services_resumed
    \/ close_resumed
    \/ add_service
    \/ get_service_info_done
    \/ tick

\* one call of discover
SpecDiscover == DiscoverInit /\ [][DiscoverNext]_vars

\* the conversions applied one after the other to a temperature of the range
\* set_status accepts (line 133)
MinTemperature == 2900
MaxTemperature == 7000

\* no handle is in use and discover is not running; the temperature is any
\* integer of the accepted range
ConvertInit ==
    /\ kelvin \in MinTemperature..MaxTemperature /\ raw = <<>> /\ back = <<>>
    /\ handle = InitHandle
    /\ dev = InitDev
    /\ heap = <<>> /\ _info = 0 /\ _status = 0
    /\ calls = <<>>
    /\ dpc = "idle" /\ now = 0 /\ start = 0 /\ wake = 0
    /\ light_count = <<>> /\ timeout = 0
    /\ future_services = <<>> /\ awaited = 0 /\ lights = <<>>
    /\ closed = 0 /\ reached = <<>> /\ left = <<>>

\* line 134: _temperature_to_value is applied to the temperature
temperature_to_value ==
    /\ raw = <<>>
    /\ raw' = <<_temperature_to_value(kelvin)>>
    /\ UNCHANGED <<kelvin, back>>
    /\ UNCHANGED lvars
    /\ UNCHANGED dvars

\* lines 105 and 144: _value_to_temperature is applied to the device value
value_to_temperature ==
    /\ raw # <<>> /\ back = <<>>
    /\ back' = <<_value_to_temperature(raw[1])>>
    /\ UNCHANGED <<kelvin, raw>>
    /\ UNCHANGED lvars
    /\ UNCHANGED dvars

ConvertNext ==
    \/ temperature_to_value
    \/ value_to_temperature

\* the round trip of one temperature
SpecConvert == ConvertInit /\ [][ConvertNext]_vars

\* one call of discover in an event loop that runs: time advances, a coroutine
\* that can go on does, every resolution started completes in some way, and
\* so does close()
SpecDiscoverLive ==
    /\ SpecDiscover
    /\ WF_vars(tick)
    /\ WF_vars(while_check)
    /\ WF_vars(get_service_info_done)
    /\ WF_vars(services_resumed)
    /\ WF_vars(close_resumed)

----------------------------------------------------------------------------
(* Properties *)

Calls == 1..Len(calls)

\* the requests call c issued to `query`, reads (GET) or writes (PUT)
Reads(c, query) ==
    {i \in 1..Len(calls[c].sent) :
        calls[c].sent[i].query = query /\ calls[c].sent[i].data = <<>>}
Writes(c, query) ==
    {i \in 1..Len(calls[c].sent) :
        calls[c].sent[i].query = query /\ calls[c].sent[i].data # <<>>}

\* call c and the next call are both status(), and c has returned
StatusTwice(c) ==
    /\ c + 1 \in Calls
    /\ calls[c].op = "status" /\ calls[c].pc = "done"
    /\ calls[c + 1].op = "status"

\* C1, as the spec states it: two status() calls in a row, the first having
\* returned, issue exactly one read of the lights endpoint between them.
C1_ExactlyOneRead ==
    \A c \in Calls :
        StatusTwice(c) /\ calls[c + 1].pc = "done" =>
            Cardinality(Reads(c, "lights")) + Cardinality(Reads(c + 1, "lights")) = 1

\* C1, amended: of two status() calls in a row, the first having returned, the
\* second returns at once, issues no request and returns a mapping equal to
\* the one the first returned; the first issues one read of the lights
\* endpoint when the status cache was unset as it was called and no request
\* when the cache was populated, so the two issue one read or none.
C1_SecondFromCache ==
    \A c \in Calls :
        StatusTwice(c) =>
            /\ calls[c + 1].pc = "done"
            /\ calls[c + 1].sent = <<>>
            /\ calls[c + 1].retVal = calls[c].retVal
            /\ calls[c].sent =
                   IF calls[c].had = 0 THEN <<Request("lights", <<>>)>> ELSE <<>>

\* C1 witness: the first of the two fetched the status, the caller changed the
\* dict it got, and the second still returned what the first had returned
C1_Witness ==
    \E c \in Calls :
        /\ StatusTwice(c)
        /\ calls[c].had = 0 /\ calls[c].mutated
        /\ calls[c + 1].pc = "done"
        /\ calls[c + 1].retVal = calls[c].retVal

InfoCalls == {c \in Calls : calls[c].op = "info"}

\* C2: as long as no info() call has raised, the info() calls made on the
\* handle (each awaited before the next call) have issued exactly one read of
\* accessory-info between them, every one that returned has returned the same
\* mapping, the one the light answered, and a returned dict the caller has
\* changed is neither the cached dict nor the dict of another call: the cache
\* still holds the light's answer and every other returned dict its value.
C2_InfoIdempotent ==
    (InfoCalls # {} /\ \A c \in InfoCalls : calls[c].pc # "raised") =>
        /\ Cardinality({<<c, i>> \in Calls \X (1..2) : i \in Reads(c, "accessory-info")}) = 1
        /\ \A c \in InfoCalls :
               calls[c].pc = "done" =>
                   /\ calls[c].retVal = <<DeviceInfo>>
                   /\ Cardinality(Reads(c, "accessory-info")) <= 1
                   /\ calls[c].ret # _info
                   /\ \A d \in InfoCalls : d # c => calls[d].ret # calls[c].ret
                   /\ ~calls[c].mutated => heap[calls[c].ret] = DeviceInfo
        /\ _info # 0 => heap[_info] = DeviceInfo

\* C2 witness: three info() calls have returned, one read was issued, and the
\* caller has changed the dict of the second
C2_Witness ==
    /\ Cardinality({c \in InfoCalls : calls[c].pc = "done"}) >= 3
    /\ \E c \in InfoCalls : calls[c].mutated /\ calls[c].sent = <<>>
    /\ \E c \in InfoCalls : Cardinality(Reads(c, "accessory-info")) = 1

\* the partial update in the body of the k-th request of call c
Partial(c, k) == calls[c].sent[k].data[1].lights[1]

\* the body of a write with partial update `partial`
Body(partial) == [numberOfLights |-> 1, lights |-> <<partial>>]

\* C3: whatever the three arguments of set_status (each absent, in range or
\* out of range), the call sends exactly one request, a write to the lights
\* endpoint with body {numberOfLights: 1, lights: [partial]}, where partial
\* holds exactly the arguments given and in range (on in {0, 1}, brightness in
\* 0..100, temperature in 2900..7000, sent as its device value): an argument
\* out of range removes only its own field.
C3_ValidFieldsSent ==
    \A c \in Calls :
        calls[c].op = "set_status" =>
            LET call == calls[c]
                onOk == call.on # <<>> /\ call.on[1] \in {0, 1}
                brOk == call.brightness # <<>> /\ call.brightness[1] \in 0..100
                teOk == call.temperature # <<>> /\ call.temperature[1] \in 2900..7000
            IN  /\ Len(call.sent) = 1
                /\ call.sent[1].query = "lights"
                /\ call.sent[1].data # <<>>
                /\ call.sent[1].data[1] = Body(Partial(c, 1))
                /\ DOMAIN Partial(c, 1) =
                       {k \in Keys : \/ k = "on" /\ onOk
                                     \/ k = "brightness" /\ brOk
                                     \/ k = "temperature" /\ teOk}
                /\ onOk => Partial(c, 1).on = call.on[1]
                /\ brOk => Partial(c, 1).brightness = call.brightness[1]
                /\ teOk => Partial(c, 1).temperature =
                               _temperature_to_value(call.temperature[1])

\* C3 witness: set_status(brightness=150, temperature=4000) has returned and its
\* write carried the temperature alone, as the device value 249
C3_Witness ==
    \E c \in Calls :
        /\ calls[c].op = "set_status" /\ calls[c].pc = "done"
        /\ calls[c].on = <<>> /\ calls[c].brightness = <<150>>
        /\ calls[c].temperature = <<4000>>
        /\ calls[c].sent = <<Request("lights", <<Body([temperature |-> 249])>>)>>

\* C4: increment_brightness(increment) sends at most one write, and exactly
\* one once it has returned; that write updates the brightness alone, to
\* min(100, max(0, b + increment)) for the cached brightness b (the cache as
\* it is when the write is sent, fetched first when it was unset), so the
\* value is never dropped by the range check of set_status.
C4_IncrementBrightness ==
    \A c \in Calls :
        calls[c].op = "increment_brightness" =>
            /\ Cardinality(Writes(c, "lights")) <= 1
            /\ calls[c].pc = "done" => Cardinality(Writes(c, "lights")) = 1
            /\ Cardinality(Reads(c, "lights")) = (IF calls[c].had = 0 THEN 1 ELSE 0)
            /\ calls[c].pc = "set_status" =>
                   LET v == heap[_status].brightness + calls[c].increment[1]
                       clamped == IF v < 0 THEN 0 ELSE IF v > 100 THEN 100 ELSE v
                   IN  calls[c].sent[Len(calls[c].sent)] =
                           Request("lights", <<Body([brightness |-> clamped])>>)

\* C4 witness: increment_brightness(-1000) with brightness 10 cached has
\* returned, and its write set the brightness to 0
C4_Witness ==
    \E c \in Calls :
        /\ calls[c].op = "increment_brightness" /\ calls[c].pc = "done"
        /\ calls[c].increment = <<-1000>>
        /\ calls[c].had # 0 /\ heap[calls[c].had].brightness = 10
        /\ calls[c].sent = <<Request("lights", <<Body([brightness |-> 0])>>)>>

\* C5: increment_temperature(increment) with a temperature c in the cache (in
\* Kelvin, also one outside 2900..7000) sends at most one write, and exactly
\* one once it has returned; that write updates the temperature alone, to the
\* device value of min(7000, max(2900, c + increment)), so the field is never
\* dropped by the range check of set_status.
C5_IncrementTemperature ==
    \A c \in Calls :
        calls[c].op = "increment_temperature" =>
            /\ Cardinality(Writes(c, "lights")) <= 1
            /\ calls[c].pc = "done" => Cardinality(Writes(c, "lights")) = 1
            /\ Cardinality(Reads(c, "lights")) = (IF calls[c].had = 0 THEN 1 ELSE 0)
            /\ calls[c].pc = "set_status" =>
                   LET v == heap[_status].temperature + calls[c].increment[1]
                       clamped == IF v < 2900 THEN 2900 ELSE IF v > 7000 THEN 7000 ELSE v
                   IN  calls[c].sent[Len(calls[c].sent)] =
                           Request("lights",
                                   <<Body([temperature |-> _temperature_to_value(clamped)])>>)

\* C5 witness: increment_temperature(+10000) with 2915 K cached (what 2900 K
\* reads back as) has returned and its write set 7000 K, the device value 142;
\* and an increment was made from the cached 7042 K, outside the range
C5_Witness ==
    /\ \E c \in Calls :
        /\ calls[c].op = "increment_temperature" /\ calls[c].pc = "done"
        /\ calls[c].increment = <<10000>>
        /\ calls[c].had # 0 /\ heap[calls[c].had].temperature = 2915
        /\ calls[c].sent = <<Request("lights", <<Body([temperature |-> 142])>>)>>
    /\ \E c \in Calls :
        /\ calls[c].op = "increment_temperature" /\ calls[c].had = 0
        /\ Cardinality(Writes(c, "lights")) = 1

\* a step in which the transport's error leaves _elgato_rest in call c
TransportFails(c) ==
    /\ calls[c].pc \in Awaiting
    /\ calls'[c].pc = "raised" /\ calls'[c].err = "TransportError"

\* C9: a step in which the transport fails in a call (in info, status or
\* set_status, also when reached through another method) ends the call with
\* that error, returns nothing and changes neither cache nor any dict: a status
\* cached before stays cached.  The call issues no request in that step nor
\* ever after (a call that has raised does nothing more), and the step that
\* makes a call changes neither cache, so the caches are as before the call.
C9_TransportFailure ==
    [][/\ \A c \in Calls :
              TransportFails(c) =>
                  /\ _status' = _status /\ _info' = _info /\ heap' = heap
                  /\ calls'[c].sent = calls[c].sent
                  /\ calls'[c].ret = 0 /\ calls'[c].retVal = <<>>
       /\ \A c \in Calls : calls[c].pc = "raised" => calls'[c] = calls[c]
       /\ Len(calls') > Len(calls) =>
              /\ _status' = _status /\ _info' = _info
              /\ \A o \in 1..Len(heap) : heap'[o] = heap[o]
      ]_vars

\* C9 witness: a write failed after the light had applied it; the call raised
\* the transport's error after one request, and the status cached before is
\* still cached, now different from the light's state
C9_Witness ==
    \E c \in Calls :
        /\ calls[c].pc = "raised" /\ calls[c].err = "TransportError"
        /\ Len(calls[c].sent) = 1 /\ Cardinality(Writes(c, "lights")) = 1
        /\ calls[c].had # 0 /\ _status = calls[c].had
        /\ heap[_status].brightness # dev.brightness

\* the call that received the last response of the lights endpoint
LastLanded == CHOOSE c \in Calls : calls[c].landed = Landed

\* C10: whenever the handle has received a response of the lights endpoint
\* whose first light entry can be converted, the status cache is the entry of
\* the response received last, its temperature converted to Kelvin, whatever
\* the order in which the calls were made and in which the light applied the
\* writes; so it is after overlapping set_status calls have all completed.
C10_LastResponseWins ==
    (Landed > 0 /\ ConvertErr(calls[LastLanded].got[1]) = "") =>
        /\ _status # 0
        /\ heap[_status] =
               [calls[LastLanded].got[1] EXCEPT !.temperature = _value_to_temperature(@)]

\* C10 witness: two writes of the brightness overlapped; the light applied
\* the first call's write first, the first call's response arrived last, and
\* with both calls over the cache holds the first call's response and not
\* the light's brightness
C10_Witness ==
    /\ Len(calls) = 2 /\ InFlight = {}
    /\ calls[1].pc = "done" /\ calls[2].pc = "done"
    /\ Cardinality(Writes(1, "lights")) = 1 /\ Cardinality(Writes(2, "lights")) = 1
    /\ calls[1].landed > calls[2].landed
    /\ calls[1].got[1].brightness # calls[2].got[1].brightness
    /\ dev.brightness = calls[2].got[1].brightness
    /\ heap[_status].brightness = calls[1].got[1].brightness

\* discover has left the listening loop
LeftListening == dpc \notin {"idle", "entered", "sleeping"}

Over == dpc \in {"returned", "raised"}

\* C6: with light_count = n > 0, once n resolutions have been started at a
\* time t before the timeout, discover sleeps no further than the poll that
\* follows t: it leaves the loop at most one poll interval after t; and when
\* it returns with exactly n names reported, it returns n handles.
C6_EarlyExit ==
    (/\ light_count # <<>> /\ light_count[1] > 0
     /\ reached # <<>> /\ reached[1] - start < timeout * PollsPerSecond) =>
        /\ dpc = "sleeping" => now <= reached[1] + 1 /\ wake <= reached[1] + 1
        /\ LeftListening => left # <<>> /\ left[1] <= reached[1] + 1
        /\ (dpc = "returned" /\ Len(future_services) = light_count[1]) =>
               Len(lights) = light_count[1]

\* C6 witness: light_count = 2, timeout = 2 s; the second resolution started at
\* 1 s, discover left the loop within a poll interval and has returned two
\* handles before the timeout
C6_Witness ==
    /\ light_count = <<2>> /\ timeout = 2
    /\ reached = <<PollsPerSecond>>
    /\ dpc = "returned" /\ Len(lights) = 2
    /\ left[1] <= PollsPerSecond + 1
    /\ now < timeout * PollsPerSecond

\* C7: zeroconf_loop.close() is called at most once; it has been called once
\* when discover is over, whether it returned or raised; and once it has been
\* called discover awaits no resolution any more: it is awaiting close() or
\* is over.
C7_ReleasedOnce ==
    /\ closed <= 1
    /\ Over => closed = 1
    /\ closed = 1 => dpc \in {"closing", "closing_raising", "returned", "raised"}
    /\ dpc \in {"entered", "sleeping", "services"} => closed = 0

\* C7 witness: discover raised (a resolution failed) and close() was called
C7_Witness ==
    /\ dpc = "raised" /\ closed = 1
    /\ \E i \in 1..Len(future_services) : future_services[i] = "failed"

Unresolved == {i \in 1..Len(future_services) : future_services[i] \in {"failed", "none"}}
Resolved == {i \in 1..Len(future_services) : future_services[i] = "resolved"}

\* C8: when discover is over and one resolution has failed (it raised, or gave
\* a record that cannot be converted) while the others have succeeded, discover
\* has returned a list with one handle for every resolved device.
C8_FailureIsolated ==
    (/\ Over
     /\ Cardinality(Unresolved) = 1
     /\ Cardinality(Resolved) = Len(future_services) - 1) =>
        /\ dpc = "returned"
        /\ Len(lights) = Cardinality(Resolved)

\* C11: for every integer temperature t of 2900..7000, the temperature read
\* back, _value_to_temperature(_temperature_to_value(t)), is within 100 K of t;
\* the device value in between is one of 142..343.  The round trip need not be
\* the identity (the two conversions use the exponents -0.999 and -1).
C11_RoundTripBounded ==
    /\ raw # <<>> => raw[1] \in 142..343
    /\ back # <<>> => /\ back[1] - kelvin <= 100
                      /\ kelvin - back[1] <= 100

\* C11 witness: 6988 K is sent as 142 and read back as 7042 K, 54 K higher: the
\* largest difference of the range, and not the identity
C11_Witness ==
    /\ kelvin = 6988 /\ raw = <<_temperature_to_value(6988)>>
    /\ back # <<>> /\ back[1] # kelvin
    /\ back[1] - kelvin = 54

\* C12: while discover awaits a resolution every earlier one has completed;
\* when the comprehension is through and nothing was raised (discover awaits
\* close() to return, or has returned), every resolution that was started has
\* completed with a record, also one started after the listening loop was
\* left, and the list holds one handle for each of them, in the order the
\* names were reported, however many light_count asked for.
C12_AwaitsEveryStarted ==
    /\ dpc = "services" =>
           /\ awaited < Len(future_services)
           /\ \A i \in 1..awaited : future_services[i] \in {"resolved", "none"}
    /\ dpc \in {"closing", "returned"} =>
           /\ \A i \in 1..Len(future_services) : future_services[i] = "resolved"
           /\ awaited = Len(future_services)
           /\ Len(lights) = Len(future_services)
           /\ \A i \in 1..Len(lights) : lights[i] = ElgatoLight(i)

\* C12 witness: light_count = 1; one name was reported when the loop was left
\* and two more while services() was awaiting; discover returned three handles
C12_Witness ==
    /\ dpc = "returned" /\ light_count = <<1>>
    /\ left # <<>> /\ left[2] = 1
    /\ Len(future_services) = 3 /\ Len(lights) = 3

\* a step in which discover evaluates the condition of its loop: on entry, or
\* when a sleep is over
Poll == dpc \in {"entered", "sleeping"} /\ (dpc' # dpc \/ wake' # wake)

\* C13: at every poll discover goes on listening (it sleeps one more poll
\* interval) if and only if (light_count is None or fewer than light_count
\* resolutions have been started) and the time elapsed is less than the
\* timeout.  So with light_count None it does not leave the loop before the
\* timeout, whatever was found; it never sleeps beyond the timeout and leaves
\* the loop at most one poll interval after it; and when no name was reported
\* it returns an empty list and raises nothing.
C13_ListeningIff ==
    /\ [][Poll =>
            (dpc' = "sleeping" <=>
                /\ light_count = <<>> \/ Len(future_services) < light_count[1]
                /\ now - start < timeout * PollsPerSecond)]_vars
    /\ [](/\ (light_count = <<>> /\ LeftListening) =>
                 left[1] - start >= timeout * PollsPerSecond
          /\ dpc = "sleeping" => wake - start <= timeout * PollsPerSecond
          /\ LeftListening => left[1] - start <= timeout * PollsPerSecond + 1
          /\ (Over /\ future_services = <<>>) => dpc = "returned" /\ lights = <<>>)

\* C13 witness: light_count None, timeout 1 s; three names were reported and
\* resolved before the timeout, discover left the loop at the timeout (ten
\* polls after the start) and returned the three handles
C13_Witness ==
    /\ light_count = <<>> /\ timeout = 1
    /\ left = <<PollsPerSecond, 3>>
    /\ dpc = "returned" /\ Len(lights) = 3

\* C14: in the step in which set_status returns (directly or under power_on,
\* power_off, set_brightness, set_temperature or an increment), the status
\* cache becomes the first light entry of the response the call received, with
\* its temperature converted by _value_to_temperature and every other key as
\* received, whatever the cache held before and whatever fields the call
\* sent; the dict set_status returns to its caller is another object with the
\* same contents.
C14_CacheIsResponse ==
    [][\A c \in Calls :
           (calls[c].pc = "set_status" /\ calls'[c].pc = "done") =>
               LET entry == calls[c].rsp[1].lights[1]
               IN  /\ _status' # 0
                   /\ heap'[_status'] =
                          [entry EXCEPT !.temperature = _value_to_temperature(@)]
                   /\ calls[c].op = "set_status" =>
                          /\ calls'[c].retVal = <<heap'[_status']>>
                          /\ calls'[c].ret # _status'
                          /\ heap'[calls'[c].ret] = heap'[_status']
      ]_vars

\* C14 witness: set_status has returned without having sent a brightness; the
\* cache it found held another brightness than the response (an earlier write
\* had reached the light and failed in the client), and the cache and the
\* returned mapping are the converted response
C14_Witness ==
    \E c \in Calls :
        /\ calls[c].op = "set_status" /\ calls[c].pc = "done"
        /\ "brightness" \notin DOMAIN Partial(c, 1)
        /\ calls[c].had # 0
        /\ heap[calls[c].had].brightness # calls[c].got[1].brightness
        /\ heap[_status] =
               [calls[c].got[1] EXCEPT !.temperature = _value_to_temperature(@)]
        /\ calls[c].retVal = <<heap[_status]>>

\* the contents of a cache: <<>> when it is None
Cached(ref) == IF ref = 0 THEN <<>> ELSE <<heap[ref]>>

\* call c receives a response of the lights endpoint in this step
Receives(c) == calls'[c].landed > calls[c].landed

\* C15: a step changes the status cache (the dict it names or its contents)
\* only if in that step a call that found the cache unset receives the
\* response of the read it issued from status(), or a call receives the
\* response of a write issued from set_status().  info(), status() on a
\* populated cache (it issues no request) and a caller changing a returned
\* mapping leave it as it is; a cache that is set stays set; the contents of
\* _info do not change once it is set; and address, port, name and server of
\* the handle never change.
C15_CacheFrame ==
    [][/\ handle' = handle
       /\ _info # 0 => _info' # 0 /\ Cached(_info)' = Cached(_info)
       /\ _status # 0 => _status' # 0
       /\ (_status' # _status \/ Cached(_status)' # Cached(_status)) =>
              \E c \in Calls :
                  /\ Receives(c)
                  /\ \/ calls[c].pc = "status" /\ calls[c].had = 0
                     \/ calls[c].pc = "set_status"
       /\ \A c \in Calls :
              (calls'[c].op = "status" /\ calls[c].had # 0) => calls'[c].sent = <<>>
       /\ Len(calls') > Len(calls) =>
              _status' = _status /\ Cached(_status)' = Cached(_status)
      ]_vars

\* C15 witness: status() was called on a populated cache and returned without
\* a request, the caller changed the mapping it got, info() has returned, and
\* the cache still is the dict the first call stored, with the brightness the
\* light answered
C15_Witness ==
    /\ Len(calls) = 3
    /\ calls[1].op = "status" /\ calls[1].had = 0 /\ calls[1].pc = "done"
    /\ calls[2].op = "status" /\ calls[2].had # 0 /\ calls[2].sent = <<>>
    /\ calls[2].mutated /\ heap[calls[2].ret].brightness = -1
    /\ calls[3].op = "info" /\ calls[3].pc = "done"
    /\ _status = calls[2].had
    /\ heap[_status].brightness = calls[1].got[1].brightness

\* C16: with light_count <= 0 or timeout = 0, discover never sleeps and never
\* waits for a resolution: from its entry it goes to the finally clause, with
\* the clock where it was at the start; it raises nothing, calls close() once
\* and returns a list with one handle per resolution started (none: no name
\* can be reported before discover first suspends, in close()).
C16_DegenerateArguments ==
    ((light_count # <<>> /\ light_count[1] <= 0) \/ timeout = 0) =>
        /\ dpc \in {"entered", "closing", "returned"}
        /\ wake = 0
        /\ left # <<>> => left[1] = start
        /\ dpc # "entered" => closed = 1
        /\ dpc = "returned" =>
               /\ Len(lights) = Len(future_services)
               /\ lights = <<>>

\* C16 witness: discover(light_count=-1, timeout=2) has returned an empty list
\* after close(), and the clock was not at the timeout
C16_Witness ==
    /\ light_count = <<-1>> /\ timeout = 2
    /\ dpc = "returned" /\ closed = 1 /\ lights = <<>>
    /\ left = <<0, 0>> /\ now < timeout * PollsPerSecond

\* no call is suspended and a status is cached
Quiescent == InFlight = {} /\ _status # 0

\* the light's state as the client caches it: the temperature in Kelvin
DeviceStatus == [dev EXCEPT !.temperature = _value_to_temperature(@)]

\* C17, as the spec states it: the light is changed through this handle only
\* (so it is in the model); whenever no call is suspended and a status is
\* cached, the cache equals the light's state with its temperature in Kelvin.
C17_CacheIsDevice == Quiescent => heap[_status] = DeviceStatus

\* C17, amended: whenever no call is suspended and a status is cached, every
\* call so far was made with no other call suspended, and no call has raised,
\* the cache equals the light's state with its temperature in Kelvin.  (With
\* calls that overlap the cache is the response received last, see C10, which
\* need not be the light's last answer; and a write that failed in the client
\* may have reached the light.)
C17_CacheIsDeviceSerial ==
    (/\ Quiescent
     /\ \A c \in Calls : calls[c].alone /\ calls[c].pc # "raised") =>
        heap[_status] = DeviceStatus

\* C17 witness: status() and then set_status(on=1, brightness=50), each awaited;
\* both have returned and the cache is the light's state, which the write changed
C17_Witness ==
    /\ Quiescent /\ Len(calls) = 2
    /\ \A c \in Calls : calls[c].alone /\ calls[c].pc = "done"
    /\ calls[1].op = "status" /\ calls[2].op = "set_status"
    /\ calls[2].on = <<1>> /\ calls[2].brightness = <<50>>
    /\ dev = [on |-> 1, brightness |-> 50, temperature |-> 142]
    /\ heap[_status] = [on |-> 1, brightness |-> 50, temperature |-> 7042]

\* the conversion of the response fails in call c in this step
ConversionFails(c) ==
    /\ calls[c].pc \in {"status", "set_status"}
    /\ calls'[c].pc = "raised"
    /\ calls'[c].err \in {"KeyError", "ZeroDivisionError"}

\* C18: a step in which a call has received a response whose first light
\* entry has no temperature, or the temperature 0, ends the call with an error
\* and leaves the status cache as it was; and whenever a status is cached, it
\* has a temperature that is the conversion of a device value (of 1..343, what
\* the light can hold), so never a device value itself.
C18_FailedConversionKeepsCache ==
    /\ [][\A c \in Calls :
              /\ (Receives(c) /\ ConvertErr(calls'[c].got[1]) # "") => ConversionFails(c)
              /\ ConversionFails(c) =>
                     _status' = _status /\ Cached(_status)' = Cached(_status)]_vars
    /\ [](_status # 0 =>
              /\ "temperature" \in DOMAIN heap[_status]
              /\ \E v \in 1..343 :
                     heap[_status].temperature = _value_to_temperature(v))

\* the calls that have issued a read of the lights endpoint
StatusReaders == {c \in Calls : Reads(c, "lights") # {}}

\* C19, as the spec states it: the calls made on the handle issue at most one
\* read of the lights endpoint between them, however they interleave.
C19_AtMostOneRead == Cardinality(StatusReaders) <= 1

\* C19, amended: a call of status(), increment_brightness() or
\* increment_temperature() issues one read of the lights endpoint when the
\* status cache is unset as it is called, and none when it is populated; no
\* other call issues one.  So no call reads twice and nothing is read once the
\* cache is populated, but calls made before the first response has arrived,
\* or after a read that failed, read again.
C19_ReadWhenUnset ==
    \A c \in Calls :
        Cardinality(Reads(c, "lights")) =
            IF /\ calls[c].op \in {"status", "increment_brightness", "increment_temperature"}
               /\ calls[c].had = 0
            THEN 1 ELSE 0

\* C19 witness: status() was called twice before any response had arrived;
\* both calls have read the lights endpoint and both have returned
C19_Witness ==
    /\ Len(calls) = 2
    /\ \A c \in Calls :
           /\ calls[c].op = "status" /\ calls[c].pc = "done"
           /\ calls[c].had = 0
           /\ calls[c].sent = <<Request("lights", <<>>)>>
    /\ ~calls[2].alone

\* C20: for every light_count and every timeout >= 0, when time advances and
\* every resolution started completes, discover is eventually over: it has
\* returned or raised.  On the way it sleeps only while the time elapsed at
\* its last poll was less than the timeout, so it is in the listening loop at
\* most until the timeout; the wait for the resolutions started is not bounded
\* by the timeout, and discover returns only when none of them is pending.
C20_Terminates ==
    /\ <>Over
    /\ [](dpc = "sleeping" => now - start <= timeout * PollsPerSecond)
    /\ [](dpc = "returned" =>
              \A i \in 1..Len(future_services) : future_services[i] # "pending")

\* C20 witness: the timeout has passed, discover has left the loop and is
\* still awaiting a resolution that has not completed
C20_Witness ==
    /\ dpc = "services"
    /\ now - start > timeout * PollsPerSecond
    /\ future_services[awaited + 1] = "pending"

====
